---- MODULE Spec2Model ----
(***************************************************************************)
(* Circuit-breaker flow-node (api-builder-plugin-circuit-breaker).         *)
(*                                                                         *)
(* The model follows actions.js: configCheckCircuitBreaker ("check") and   *)
(* updateCircuitBreaker ("update") acting on the breakers held by the      *)
(* NodeCache created in index.js (useClones: false, so the cache holds the *)
(* very object the handlers mutate).                                       *)
(*                                                                         *)
(* Conventions                                                             *)
(*  - A JavaScript object is a function whose DOMAIN is the set of its     *)
(*    properties; a property that is undefined is absent from the DOMAIN.  *)
(*  - A JavaScript string that the code parses (returnCodes) is a sequence *)
(*    of one-character strings.                                            *)
(*  - new Date().getTime() is the variable now (milliseconds); one handler *)
(*    invocation reads a single value of it.                               *)
(*  - The random id stored in an error event (_getRandomId) is not stored: *)
(*    no code reads it back.                                               *)
(*  - httpResponseCode is a number, as in every test of the plugin.        *)
(***************************************************************************)
EXTENDS Integers, Sequences, FiniteSets, TLC

VARIABLES
    circuitBreakerCache,  \* id -> breaker object (NodeCache content)
    now,                  \* wall clock, milliseconds
    last                  \* the step just taken: the call, its route and error

vars == <<circuitBreakerCache, now, last>>

----------------------------------------------------------------------------
(* Bounds of the exploration *)

MaxTicks == 4          \* the clock stops after MaxTicks seconds
MaxErrors == 2         \* error updates are issued while errors.length < MaxErrors
MaxSuccess == 3        \* success updates are issued while successCount < MaxSuccess

TickDelays == {1000}   \* milliseconds between two calls

----------------------------------------------------------------------------
(* JavaScript string primitives used by _isReturnCodeAnError *)

Digits == <<"0", "1", "2", "3", "4", "5", "6", "7", "8", "9">>

IsDigit(c) == \E i \in 1..10 : Digits[i] = c

DigitValue(c) == (CHOOSE i \in 1..10 : Digits[i] = c) - 1

\* String.prototype.includes for a one-character needle
Includes(s, c) == \E i \in 1..Len(s) : s[i] = c

\* String.prototype.trim (the only whitespace of the alphabet is the blank)
RECURSIVE TrimLeft(_)
TrimLeft(s) ==
    IF s # <<>> /\ Head(s) = " " THEN TrimLeft(Tail(s)) ELSE s

RECURSIVE TrimRight(_)
TrimRight(s) ==
    IF s # <<>> /\ s[Len(s)] = " " THEN TrimRight(SubSeq(s, 1, Len(s) - 1)) ELSE s

Trim(s) == TrimRight(TrimLeft(s))

\* String.prototype.split for a one-character separator: always at least
\* one field, the empty string splits into one empty field
RECURSIVE SplitFrom(_, _, _)
SplitFrom(s, sep, cur) ==
    IF s = <<>> THEN <<cur>>
    ELSE IF Head(s) = sep THEN <<cur>> \o SplitFrom(Tail(s), sep, <<>>)
    ELSE SplitFrom(Tail(s), sep, Append(cur, Head(s)))

Split(s, sep) == SplitFrom(s, sep, <<>>)

\* element.replace(/\[|\]/g, "")
StripBrackets(s) == SelectSeq(s, LAMBDA c : c # "[" /\ c # "]")

\* ToNumber of a string, as the comparison of a number with a string applies
\* it: blanks around are ignored, the empty string is 0, a run of decimal
\* digits is its value, anything else is NaN (IsNumeric is false)
IsNumeric(s) == \A i \in 1..Len(Trim(s)) : IsDigit(Trim(s)[i])

RECURSIVE DigitsValue(_, _)
DigitsValue(s, acc) ==
    IF s = <<>> THEN acc ELSE DigitsValue(Tail(s), acc * 10 + DigitValue(Head(s)))

ToNumber(s) == DigitsValue(Trim(s), 0)

\* A variant that leaves the upper end of a range out
NumLeStr_Exclusive(n, s) == IsNumeric(s) /\ n < ToNumber(s)

\* number >= string and number <= string; a comparison with NaN is false
NumGeStr(n, s) == IsNumeric(s) /\ n >= ToNumber(s)
NumLeStr(n, s) == IsNumeric(s) /\ n <= ToNumber(s)
\* number == string
NumEqStr(n, s) == IsNumeric(s) /\ n = ToNumber(s)

----------------------------------------------------------------------------
(* The error classifier *)

\* One field of returnCodes against the code: the body of the for loop
FieldMatches(field, httpResponseCode) ==
    LET element == Trim(field)
    IN  IF Includes(element, "-")
        THEN LET startEnd == Split(StripBrackets(element), "-")
             IN  /\ NumGeStr(httpResponseCode, Trim(startEnd[1]))
                 /\ NumLeStr(httpResponseCode, Trim(startEnd[2]))
        ELSE NumEqStr(httpResponseCode, element)

\* The loop over the fields of returnCodes: true at the first field that
\* matches, false when none does
ParseReturnCodes(errorCodes, httpResponseCode) ==
    LET fields == Split(errorCodes, ",")
    IN  \E i \in 1..Len(fields) : FieldMatches(fields[i], httpResponseCode)

\* The value _isReturnCodeAnError returns for a breaker and a code: the
\* remembered answer when errorCodeMap has one, else the parse
IsReturnCodeAnError(circuitBreaker, httpResponseCode) ==
    IF httpResponseCode \in DOMAIN circuitBreaker.errorCodeMap
    THEN circuitBreaker.errorCodeMap[httpResponseCode]
    ELSE ParseReturnCodes(circuitBreaker.params.returnCodes, httpResponseCode)

\* A variant that remembers nothing
RememberReturnCode_Forgets(circuitBreaker, httpResponseCode) == circuitBreaker

\* The breaker after _isReturnCodeAnError: the answer of a miss is remembered
RememberReturnCode(circuitBreaker, httpResponseCode) ==
    IF httpResponseCode \in DOMAIN circuitBreaker.errorCodeMap
    THEN circuitBreaker
    ELSE [circuitBreaker EXCEPT !.errorCodeMap =
            [c \in DOMAIN @ \cup {httpResponseCode} |->
                IF c = httpResponseCode
                THEN ParseReturnCodes(circuitBreaker.params.returnCodes, httpResponseCode)
                ELSE @[c]]]

----------------------------------------------------------------------------
(* Parameters *)

\* "[300-999]"
DefaultReturnCodes == <<"[", "3", "0", "0", "-", "9", "9", "9", "]">>

\* The values _setDefaultParams gives to the parameters the flow left out
DefaultParams ==
    [maxErrorCount |-> 10, timeRange |-> 300, halfOpenSuccesses |-> 5,
     recoverPeriod |-> 30, communicationError |-> TRUE,
     returnCodes |-> DefaultReturnCodes, maxResponseTime |-> 100]

\* A variant in which the defaults overwrite what the flow supplied
SetDefaultParams_DefaultsWin(params) ==
    [f \in DOMAIN params \cup DOMAIN DefaultParams |->
        IF f \in DOMAIN DefaultParams THEN DefaultParams[f] ELSE params[f]]

\* _setDefaultParams: every parameter that is undefined takes its default,
\* every other property of params is kept
SetDefaultParams(params) ==
    [f \in DOMAIN params \cup DOMAIN DefaultParams |->
        IF f \in DOMAIN params THEN params[f] ELSE DefaultParams[f]]

\* The object configCheckCircuitBreaker creates for an unseen identifier
NewCircuitBreaker(params) ==
    [status |-> "closed", output |-> "next", errors |-> <<>>, successCount |-> 0,
     errorCodeMap |-> [c \in {} |-> TRUE], params |-> SetDefaultParams(params)]

----------------------------------------------------------------------------
(* The handlers of the three statuses. Each yields the breaker as the      *)
(* handler leaves it and whether the handler threw.                        *)

Done(circuitBreaker) == [cb |-> circuitBreaker, threw |-> FALSE]
Threw(circuitBreaker) == [cb |-> circuitBreaker, threw |-> TRUE]

\* A variant that starts the closed breaker afresh
HandleClosedStatus_Reinitialised(circuitBreaker) ==
    Done([circuitBreaker EXCEPT !.output = "next", !.errors = <<>>,
                                !.successCount = 0])

\* _handleClosedStatus
HandleClosedStatus(circuitBreaker) ==
    Done([circuitBreaker EXCEPT !.output = "next"])

\* A variant that lets the odd successCount through
HalfopenOutput_OddNext(circuitBreaker) ==
    IF circuitBreaker.successCount % 2 = 1 THEN "next" ELSE "open"

\* The output of a halfopen breaker alternates with successCount
HalfopenOutput(circuitBreaker) ==
    IF circuitBreaker.successCount % 2 = 0 THEN "next" ELSE "open"

\* A variant that leaves errors as they are when it closes the breaker
HandleHalfopenStatus_KeepsErrors(circuitBreaker, hasLogger) ==
    LET routed == [circuitBreaker EXCEPT !.output = HalfopenOutput(circuitBreaker)]
    IN  IF routed.successCount >= routed.params.halfOpenSuccesses
        THEN IF hasLogger
             THEN Done([routed EXCEPT !.status = "closed", !.output = "next"])
             ELSE Threw(routed)
        ELSE Done(routed)

\* _handleHalfopenStatus. hasLogger is false when the caller passed no
\* logger: logger.debug then throws a TypeError, after output was set
HandleHalfopenStatus(circuitBreaker, hasLogger) ==
    LET routed == [circuitBreaker EXCEPT !.output = HalfopenOutput(circuitBreaker)]
    IN  IF routed.successCount >= routed.params.halfOpenSuccesses
        THEN IF hasLogger
             THEN Done([routed EXCEPT !.status = "closed", !.output = "next",
                                      !.errors = <<>>])
             ELSE Threw(routed)
        ELSE Done(routed)

\* errors.forEach(function(error, index, object) { ... object.splice(index) })
\* forEach visits the indices below the length it read at the start and
\* skips those no longer present; splice(index) with one argument removes
\* the element at index and every element after it
RECURSIVE ForEachSplice(_, _, _, _)
ForEachSplice(object, index, len, timeRange) ==
    IF index > len THEN object
    ELSE IF index <= Len(object) /\ object[index].timestamp < timeRange
         THEN ForEachSplice(SubSeq(object, 1, index - 1), index + 1, len, timeRange)
         ELSE ForEachSplice(object, index + 1, len, timeRange)

\* A variant that measures the window with recoverPeriod
ExpireErrors_RecoverPeriod(circuitBreaker, t) ==
    ForEachSplice(circuitBreaker.errors, 1, Len(circuitBreaker.errors),
                  t - circuitBreaker.params.recoverPeriod * 1000)

\* A variant that also removes the error recorded exactly timeRange ago
ExpireErrors_Inclusive(circuitBreaker, t) ==
    ForEachSplice(circuitBreaker.errors, 1, Len(circuitBreaker.errors),
                  t - circuitBreaker.params.timeRange * 1000 + 1)

\* The errors an open breaker keeps at time t
ExpireErrors(circuitBreaker, t) ==
    ForEachSplice(circuitBreaker.errors, 1, Len(circuitBreaker.errors),
                  t - circuitBreaker.params.timeRange * 1000)

\* A variant that compares with <=
RecoverPeriodOver_Inclusive(circuitBreaker, t) ==
    /\ "openedTimestamp" \in DOMAIN circuitBreaker
    /\ circuitBreaker.openedTimestamp <= t - circuitBreaker.params.recoverPeriod * 1000

\* openedTimestamp < new Date().getTime() - recoverPeriod
\* (undefined < number is false)
RecoverPeriodOver(circuitBreaker, t) ==
    /\ "openedTimestamp" \in DOMAIN circuitBreaker
    /\ circuitBreaker.openedTimestamp < t - circuitBreaker.params.recoverPeriod * 1000

\* A variant that compares with <=
BelowMaxErrorCount_Inclusive(circuitBreaker) ==
    Len(circuitBreaker.errors) <= circuitBreaker.params.maxErrorCount

\* The breaker is closed again when fewer errors than maxErrorCount are left
BelowMaxErrorCount(circuitBreaker) ==
    Len(circuitBreaker.errors) < circuitBreaker.params.maxErrorCount

\* A variant that enters halfopen with the successCount it finds
HandleOpenStatus_KeepsSuccessCount(circuitBreaker, t) ==
    LET opened == [circuitBreaker EXCEPT !.output = "open"]
    IN  IF RecoverPeriodOver(opened, t)
        THEN HandleHalfopenStatus([opened EXCEPT !.status = "halfopen"], FALSE)
        ELSE LET pruned == [opened EXCEPT !.errors = ExpireErrors(opened, t)]
             IN  IF BelowMaxErrorCount(pruned)
                 THEN Done([pruned EXCEPT !.status = "closed", !.output = "next"])
                 ELSE Done(pruned)

\* _handleOpenStatus at time t
HandleOpenStatus(circuitBreaker, t) ==
    LET opened == [circuitBreaker EXCEPT !.output = "open"]
    IN  IF RecoverPeriodOver(opened, t)
        THEN HandleHalfopenStatus(
                 [opened EXCEPT !.status = "halfopen", !.successCount = 0], FALSE)
        ELSE LET pruned == [opened EXCEPT !.errors = ExpireErrors(opened, t)]
             IN  IF BelowMaxErrorCount(pruned)
                 THEN Done([pruned EXCEPT !.status = "closed", !.output = "next"])
                 ELSE Done(pruned)

\* The switch of configCheckCircuitBreaker
HandleStatus(circuitBreaker, t) ==
    CASE circuitBreaker.status = "open" -> HandleOpenStatus(circuitBreaker, t)
      [] circuitBreaker.status = "halfopen" -> HandleHalfopenStatus(circuitBreaker, TRUE)
      [] circuitBreaker.status = "closed" -> HandleClosedStatus(circuitBreaker)

----------------------------------------------------------------------------
(* The calls the flow makes *)

\* The identifiers of the breakers the flow uses
Ids == {"A"}

\* The response codes the flow reports
Codes == {200, 500}

\* "[300-998]" and "[300-500], 999"
LifetimeReturnCodes == <<"[", "3", "0", "0", "-", "9", "9", "8", "]">>
CombinedReturnCodes ==
    <<"[", "3", "0", "0", "-", "5", "0", "0", "]", ",", " ", "9", "9", "9">>

\* An object without properties
EmptyObject == [f \in {} |-> TRUE]

\* The parameter sets a check is called with, besides circuitBreakerId
Configs ==
    << EmptyObject,
       [maxErrorCount |-> 1, timeRange |-> 3],
       [returnCodes |-> LifetimeReturnCodes, maxErrorCount |-> 2, recoverPeriod |-> 3,
        timeRange |-> 6, halfOpenSuccesses |-> 3],
       [returnCodes |-> CombinedReturnCodes, maxErrorCount |-> 1, recoverPeriod |-> 2,
        timeRange |-> 1, halfOpenSuccesses |-> 2],
       [maxErrorCount |-> 1, recoverPeriod |-> 1, halfOpenSuccesses |-> 0],
       [maxErrorCount |-> 0] >>

WithId(id, config) == [circuitBreakerId |-> id] @@ config

\* params of configCheckCircuitBreaker: an identifier with a parameter set,
\* the empty identifier, or no identifier
CheckParamsOf(ids) ==
    {WithId(id, Configs[i]) : id \in ids, i \in 1..Len(Configs)}
        \cup {WithId("", EmptyObject), EmptyObject}

\* params of updateCircuitBreaker: an identifier and a code, or one of them
\* missing (0 and "" are as good as missing for the ! operator)
UpdateParamsOf(ids) ==
    {[circuitBreakerId |-> id, httpResponseCode |-> c] : id \in ids, c \in Codes \cup {0}}
        \cup {[circuitBreakerId |-> id] : id \in ids}
        \cup {[httpResponseCode |-> 500], [circuitBreakerId |-> "", httpResponseCode |-> 500],
              EmptyObject}

\* A variant that only looks for an undefined identifier
NoCircuitBreakerId_OnlyUndefined(params) ==
    "circuitBreakerId" \notin DOMAIN params

\* !circuitBreakerId and !httpResponseCode
NoCircuitBreakerId(params) ==
    "circuitBreakerId" \notin DOMAIN params \/ params.circuitBreakerId = ""
NoHttpResponseCode(params) ==
    "httpResponseCode" \notin DOMAIN params \/ params.httpResponseCode = 0

MissingCircuitBreakerId == "Missing required parameter: circuitBreakerId"
MissingHttpResponseCode == "Missing required parameter: httpResponseCode"
\* Cannot read properties of undefined
TypeError == "TypeError"
NoError == "none"

\* circuitBreakerCache.get(id) is undefined
Unknown(id) == id \notin DOMAIN circuitBreakerCache

\* The status of the breaker before the call, for the record of the call
StatusOf(id) == IF Unknown(id) THEN "absent" ELSE circuitBreakerCache[id].status

\* A variant that keeps one object for all identifiers
Stored_Shared(id, circuitBreaker) ==
    [i \in DOMAIN circuitBreakerCache \cup {id} |-> circuitBreaker]

\* A variant in which the cache hands out and keeps copies
UseClones_True == TRUE

\* new NodeCache({ stdTTL: 3600, useClones: false }): get returns the cached
\* object itself and set keeps the object it is given
UseClones == FALSE

\* The cache with the object of id as the call leaves it. set is called for
\* a new breaker only; what the call does to the object it got from the
\* cache is done to the cached object, unless the cache works on copies
Stored(id, circuitBreaker) ==
    [i \in DOMAIN circuitBreakerCache \cup {id} |->
        IF i # id THEN circuitBreakerCache[i]
        ELSE IF UseClones /\ ~Unknown(id) THEN circuitBreakerCache[id]
        ELSE circuitBreaker]

Call(op, params, pre, output, error) ==
    [op |-> op, params |-> params, pre |-> pre, output |-> output, error |-> error]

----------------------------------------------------------------------------
(* configCheckCircuitBreaker *)

\* A variant that applies the parameters of every check
CheckedBreaker_Reconfigured(params) ==
    IF Unknown(params.circuitBreakerId)
    THEN NewCircuitBreaker(params)
    ELSE [circuitBreakerCache[params.circuitBreakerId] EXCEPT
             !.params = SetDefaultParams(params)]

\* The breaker the call works on: the cached one, or a new one
CheckedBreaker(params) ==
    IF Unknown(params.circuitBreakerId)
    THEN NewCircuitBreaker(params)
    ELSE circuitBreakerCache[params.circuitBreakerId]

ConfigCheckCircuitBreaker(params) ==
    IF NoCircuitBreakerId(params)
    THEN /\ last' = Call("check", params, "none", "error", MissingCircuitBreakerId)
         /\ UNCHANGED <<circuitBreakerCache, now>>
    ELSE LET id == params.circuitBreakerId
             handled == HandleStatus(CheckedBreaker(params), now)
         IN  /\ circuitBreakerCache' = Stored(id, handled.cb)
             /\ last' = Call("check", params, StatusOf(id),
                             IF handled.threw THEN "error" ELSE handled.cb.output,
                             IF handled.threw THEN TypeError ELSE NoError)
             /\ UNCHANGED now

----------------------------------------------------------------------------
(* updateCircuitBreaker *)

\* The error event pushed for a code at time t
ErrorEvent(httpResponseCode, t) ==
    [timestamp |-> t, cause |-> <<"responseCode", httpResponseCode>>]

\* A variant that opens only above maxErrorCount
OpensOnError_Above(circuitBreaker) ==
    \/ circuitBreaker.status = "halfopen"
    \/ Len(circuitBreaker.errors) > circuitBreaker.params.maxErrorCount

\* The condition under which an error opens the breaker
OpensOnError(circuitBreaker) ==
    \/ circuitBreaker.status = "halfopen"
    \/ Len(circuitBreaker.errors) >= circuitBreaker.params.maxErrorCount

\* A variant that opens the breaker from halfopen only
RecordError_FromHalfopenOnly(circuitBreaker, httpResponseCode, t) ==
    LET pushed == [circuitBreaker EXCEPT
                      !.errors = Append(@, ErrorEvent(httpResponseCode, t))]
    IN  IF pushed.status = "halfopen"
        THEN [openedTimestamp |-> t] @@ [pushed EXCEPT !.status = "open"]
        ELSE pushed

\* A variant that keeps the latest error only
RecordError_KeepsLatest(circuitBreaker, httpResponseCode, t) ==
    LET pushed == [circuitBreaker EXCEPT
                      !.errors = <<ErrorEvent(httpResponseCode, t)>>]
    IN  IF OpensOnError(pushed)
        THEN [openedTimestamp |-> t] @@ [pushed EXCEPT !.status = "open"]
        ELSE pushed

\* The branch taken when the code is an error
RecordError(circuitBreaker, httpResponseCode, t) ==
    LET pushed == [circuitBreaker EXCEPT
                      !.errors = Append(@, ErrorEvent(httpResponseCode, t))]
    IN  IF OpensOnError(pushed)
        THEN [openedTimestamp |-> t] @@ [pushed EXCEPT !.status = "open"]
        ELSE pushed

\* A variant that closes the breaker on a success
RecordSuccess_Closes(circuitBreaker) ==
    [circuitBreaker EXCEPT !.successCount = @ + 1, !.status = "closed"]

\* The branch taken when the code is no error
RecordSuccess(circuitBreaker) ==
    [circuitBreaker EXCEPT !.successCount = @ + 1]

\* The breaker after an update with the code at time t
Updated(circuitBreaker, httpResponseCode, t) ==
    LET looked == RememberReturnCode(circuitBreaker, httpResponseCode)
    IN  IF IsReturnCodeAnError(circuitBreaker, httpResponseCode)
        THEN RecordError(looked, httpResponseCode, t)
        ELSE RecordSuccess(looked)

\* The exploration stops growing errors and successCount at the bounds
WithinBounds(circuitBreaker, httpResponseCode) ==
    IF IsReturnCodeAnError(circuitBreaker, httpResponseCode)
    THEN Len(circuitBreaker.errors) < MaxErrors
    ELSE circuitBreaker.successCount < MaxSuccess

UpdateCircuitBreaker(params) ==
    IF NoCircuitBreakerId(params)
    THEN /\ last' = Call("update", params, "none", "error", MissingCircuitBreakerId)
         /\ UNCHANGED <<circuitBreakerCache, now>>
    ELSE IF NoHttpResponseCode(params)
    THEN /\ last' = Call("update", params, "none", "error", MissingHttpResponseCode)
         /\ UNCHANGED <<circuitBreakerCache, now>>
    ELSE IF Unknown(params.circuitBreakerId)
    THEN \* _isReturnCodeAnError reads errorCodeMap of undefined
         /\ last' = Call("update", params, "absent", "error", TypeError)
         /\ UNCHANGED <<circuitBreakerCache, now>>
    ELSE LET id == params.circuitBreakerId
             code == params.httpResponseCode
         IN  /\ WithinBounds(circuitBreakerCache[id], code)
             /\ circuitBreakerCache' =
                    Stored(id, Updated(circuitBreakerCache[id], code, now))
             /\ last' = Call("update", params, StatusOf(id), "next", NoError)
             /\ UNCHANGED now

----------------------------------------------------------------------------
(* Time passes between two calls *)

Tick ==
    \E d \in TickDelays :
        /\ now + d <= MaxTicks * 1000
        /\ now' = now + d
        /\ last' = Call("tick", EmptyObject, "none", "none", NoError)
        /\ UNCHANGED circuitBreakerCache

----------------------------------------------------------------------------
(* getPlugin creates an empty cache *)

Init ==
    /\ circuitBreakerCache = [i \in {} |-> EmptyObject]
    /\ now = 0
    /\ last = Call("init", EmptyObject, "none", "none", NoError)

Check == \E params \in CheckParamsOf(Ids) : ConfigCheckCircuitBreaker(params)

Update == \E params \in UpdateParamsOf(Ids) : UpdateCircuitBreaker(params)

Next == Check \/ Update \/ Tick

Spec == Init /\ [][Next]_vars

----------------------------------------------------------------------------
(* Vocabulary of the properties *)

\* The breaker of id before and after a step
Before(id) == circuitBreakerCache[id]
After(id) == circuitBreakerCache'[id]

Known(id) == id \in DOMAIN circuitBreakerCache

\* params holds no identifier (none, or the empty one), no response code
LacksId(params) ==
    "circuitBreakerId" \notin DOMAIN params \/ params.circuitBreakerId = ""
LacksCode(params) ==
    "httpResponseCode" \notin DOMAIN params \/ params.httpResponseCode = 0

\* The step is a check, or an update, that passed validation for id
CheckOf(id) ==
    /\ last'.op = "check"
    /\ ~LacksId(last'.params)
    /\ last'.params.circuitBreakerId = id

UpdateOf(id, code) ==
    /\ last'.op = "update"
    /\ ~LacksId(last'.params)
    /\ ~LacksCode(last'.params)
    /\ last'.params.circuitBreakerId = id
    /\ last'.params.httpResponseCode = code

\* The last call was a check, or an update, that passed validation for id
LastCheckOf(id) ==
    /\ last.op = "check"
    /\ ~LacksId(last.params)
    /\ last.params.circuitBreakerId = id

LastUpdateOf(id) ==
    /\ last.op = "update"
    /\ ~LacksId(last.params)
    /\ ~LacksCode(last.params)
    /\ last.params.circuitBreakerId = id

\* A check finds the breaker of id open, the time since it opened being
\* more than, exactly, or less than the recover period
OpenSince(id) == now - Before(id).openedTimestamp
RecoverMillis(id) == Before(id).params.recoverPeriod * 1000
WindowMillis(id) == Before(id).params.timeRange * 1000

ChecksOpen(id) ==
    /\ Known(id)
    /\ Before(id).status = "open"
    /\ "openedTimestamp" \in DOMAIN Before(id)
    /\ CheckOf(id)

\* The check of an open breaker that does not turn it halfopen
ChecksOpenInRecoverPeriod(id) ==
    ChecksOpen(id) /\ OpenSince(id) <= RecoverMillis(id)

----------------------------------------------------------------------------
(* C1 *)

\* What C1 says the check of an open breaker does once the recover period
\* is over
TurnsHalfopen(id) ==
    /\ After(id).status = "halfopen"
    /\ After(id).successCount = 0
    /\ After(id).errors = Before(id).errors
    /\ last'.output = "next"
    /\ last'.error = NoError

\* C1 as claimed: a check of an open breaker at a time now with
\* now - openedAt >= recoverPeriod*1000, equality included, turns the breaker
\* halfopen with successCount 0 within the call and returns route next (for
\* halfOpenSuccesses > 0), errors unchanged.
C1_AsClaimed ==
    [][\A id \in Ids :
        (/\ ChecksOpen(id)
         /\ OpenSince(id) >= RecoverMillis(id)
         /\ Before(id).params.halfOpenSuccesses > 0) => TurnsHalfopen(id)]_vars

\* C1 amended: the same for now - openedAt > recoverPeriod*1000, strictly;
\* at exact equality the breaker is still handled as open and is not turned
\* halfopen.
C1_HalfopenAfterRecoverPeriod ==
    [][\A id \in Ids :
        /\ (/\ ChecksOpen(id)
            /\ OpenSince(id) > RecoverMillis(id)
            /\ Before(id).params.halfOpenSuccesses > 0) => TurnsHalfopen(id)
        /\ (/\ ChecksOpen(id)
            /\ OpenSince(id) = RecoverMillis(id)) => After(id).status # "halfopen"]_vars

C1_Witness ==
    \E id \in Ids :
        /\ Known(id)
        /\ LastCheckOf(id)
        /\ last.pre = "open"
        /\ last.output = "next"
        /\ Before(id).status = "halfopen"
        /\ Before(id).successCount = 0
        /\ Before(id).params.halfOpenSuccesses > 0
        /\ Len(Before(id).errors) > 0
        /\ OpenSince(id) > RecoverMillis(id)

----------------------------------------------------------------------------
(* C2 *)

\* C2: a check of an open breaker whose recover period is not over prunes
\* errors (what is left is a prefix of errors without any expired event) and
\* then closes the breaker with route next when errors.length < maxErrorCount,
\* and otherwise leaves it open with route open.
C2_OpenCheckClosesBelowMax ==
    [][\A id \in Ids :
        ChecksOpenInRecoverPeriod(id) =>
            /\ Len(After(id).errors) <= Len(Before(id).errors)
            /\ After(id).errors = SubSeq(Before(id).errors, 1, Len(After(id).errors))
            /\ \A i \in 1..Len(After(id).errors) :
                   After(id).errors[i].timestamp >= now - WindowMillis(id)
            /\ IF Len(After(id).errors) < Before(id).params.maxErrorCount
               THEN After(id).status = "closed" /\ last'.output = "next"
               ELSE After(id).status = "open" /\ last'.output = "open"]_vars

\* A check has just closed an open breaker, and another has just left one open
C2_Witness ==
    \E id \in Ids :
        /\ Known(id)
        /\ LastCheckOf(id)
        /\ last.pre = "open"
        /\ Before(id).status = "open"
        /\ last.output = "open"
        /\ Len(Before(id).errors) >= Before(id).params.maxErrorCount
        /\ Before(id).params.maxErrorCount = 2
        /\ OpenSince(id) = RecoverMillis(id)

----------------------------------------------------------------------------
(* C3 *)

\* The check of an open breaker in its recover period leaves no error that
\* was recorded more than / at least timeRange seconds ago
NoErrorOlderThanWindow(id) ==
    \A i \in 1..Len(After(id).errors) :
        ~(now > After(id).errors[i].timestamp + WindowMillis(id))

NoErrorAsOldAsWindow(id) ==
    \A i \in 1..Len(After(id).errors) :
        ~(now >= After(id).errors[i].timestamp + WindowMillis(id))

\* Scenario A: maxErrorCount 1 and timeRange 3
ScenarioA(id) ==
    /\ Before(id).params.maxErrorCount = 1
    /\ Before(id).params.timeRange = 3
    /\ Len(Before(id).errors) > 0

ClosedAndEmpty(id) ==
    /\ After(id).status = "closed"
    /\ After(id).errors = <<>>
    /\ last'.output = "next"

\* C3 as claimed: an error recorded at t is not counted by a check of the
\* open breaker at any time >= t + timeRange*1000; with maxErrorCount 1 and
\* timeRange 3 a check at least 3 seconds after the error returns closed,
\* no errors, route next.
C3_AsClaimed ==
    [][\A id \in Ids :
        ChecksOpenInRecoverPeriod(id) =>
            /\ NoErrorAsOldAsWindow(id)
            /\ (/\ ScenarioA(id)
                /\ \A i \in 1..Len(Before(id).errors) :
                       now >= Before(id).errors[i].timestamp + 3 * 1000)
               => ClosedAndEmpty(id)]_vars

\* C3 amended: the same for a check at a time > t + timeRange*1000, that is
\* more than 3 seconds after the error in the scenario.
C3_ExpiredErrorsNotCounted ==
    [][\A id \in Ids :
        ChecksOpenInRecoverPeriod(id) =>
            /\ NoErrorOlderThanWindow(id)
            /\ (/\ ScenarioA(id)
                /\ \A i \in 1..Len(Before(id).errors) :
                       now > Before(id).errors[i].timestamp + 3 * 1000)
               => ClosedAndEmpty(id)]_vars

\* Scenario A has run: the breaker was open with an error more than 3
\* seconds old and the check closed it
C3_Witness ==
    \E id \in Ids :
        /\ Known(id)
        /\ LastCheckOf(id)
        /\ last.pre = "open"
        /\ last.output = "next"
        /\ Before(id).status = "closed"
        /\ Before(id).errors = <<>>
        /\ Before(id).params.maxErrorCount = 1
        /\ Before(id).params.timeRange = 3
        /\ now > Before(id).openedTimestamp + 3 * 1000
        /\ OpenSince(id) <= RecoverMillis(id)

----------------------------------------------------------------------------
(* C4 *)

ChecksHalfopen(id) ==
    /\ Known(id)
    /\ Before(id).status = "halfopen"
    /\ CheckOf(id)

\* The routes of scenario B for successCount 0, 1, 2, 3
ScenarioBOutput == <<"next", "open", "next", "next">>
ScenarioBStatus == <<"halfopen", "halfopen", "halfopen", "closed">>

\* C4: a check of a halfopen breaker returns next for an even successCount
\* and open for an odd one and leaves the breaker halfopen, unless
\* successCount >= halfOpenSuccesses: then the breaker is closed, errors is
\* emptied and the route is next. With halfOpenSuccesses 3 the checks at
\* successCount 0, 1, 2, 3 give next, open, next and closed with next.
C4_HalfopenAlternates ==
    [][\A id \in Ids :
        ChecksHalfopen(id) =>
            /\ After(id).successCount = Before(id).successCount
            /\ last'.error = NoError
            /\ IF Before(id).successCount >= Before(id).params.halfOpenSuccesses
               THEN /\ After(id).status = "closed"
                    /\ After(id).errors = <<>>
                    /\ last'.output = "next"
               ELSE /\ After(id).status = "halfopen"
                    /\ After(id).errors = Before(id).errors
                    /\ (Before(id).successCount % 2 = 0 => last'.output = "next")
                    /\ (Before(id).successCount % 2 = 1 => last'.output = "open")
            /\ (Before(id).params.halfOpenSuccesses = 3 /\ Before(id).successCount <= 3)
               => /\ last'.output = ScenarioBOutput[Before(id).successCount + 1]
                  /\ After(id).status = ScenarioBStatus[Before(id).successCount + 1]]_vars

\* The last check of scenario B has closed the breaker
C4_Witness ==
    \E id \in Ids :
        /\ Known(id)
        /\ LastCheckOf(id)
        /\ last.pre = "halfopen"
        /\ last.output = "next"
        /\ Before(id).status = "closed"
        /\ Before(id).errors = <<>>
        /\ Before(id).successCount = 3
        /\ Before(id).params.halfOpenSuccesses = 3

----------------------------------------------------------------------------
(* C5 *)

\* openedTimestamp is the same before and after, undefined included
SameOpenedTimestamp(id) ==
    /\ ("openedTimestamp" \in DOMAIN After(id)) = ("openedTimestamp" \in DOMAIN Before(id))
    /\ "openedTimestamp" \in DOMAIN Before(id)
           => After(id).openedTimestamp = Before(id).openedTimestamp

\* C5: an update with an error code appends one event {timestamp: now, cause}
\* to errors and sets status open with openedAt = now exactly when the status
\* was halfopen or the new errors.length >= maxErrorCount, successCount
\* untouched; an update with another code adds one to successCount and
\* changes neither status nor errors.
C5_UpdateRecordsOutcome ==
    [][\A id \in Ids : \A code \in Codes :
        (Known(id) /\ UpdateOf(id, code)) =>
            /\ last'.output = "next"
            /\ IF IsReturnCodeAnError(Before(id), code)
               THEN /\ After(id).errors =
                           Before(id).errors \o
                               <<[timestamp |-> now, cause |-> <<"responseCode", code>>]>>
                    /\ After(id).successCount = Before(id).successCount
                    /\ IF \/ Before(id).status = "halfopen"
                          \/ Len(After(id).errors) >= Before(id).params.maxErrorCount
                       THEN /\ After(id).status = "open"
                            /\ "openedTimestamp" \in DOMAIN After(id)
                            /\ After(id).openedTimestamp = now
                       ELSE /\ After(id).status = Before(id).status
                            /\ SameOpenedTimestamp(id)
               ELSE /\ After(id).successCount = Before(id).successCount + 1
                    /\ After(id).status = Before(id).status
                    /\ After(id).errors = Before(id).errors
                    /\ SameOpenedTimestamp(id)]_vars

\* An error has just reopened a halfopen breaker that had counted a success
C5_Witness ==
    \E id \in Ids :
        /\ Known(id)
        /\ LastUpdateOf(id)
        /\ last.pre = "halfopen"
        /\ Before(id).status = "open"
        /\ Before(id).openedTimestamp = now
        /\ Before(id).successCount >= 1
        /\ Len(Before(id).errors) = 2
        /\ Before(id).errors[2].timestamp = now
        /\ Before(id).errors[1].timestamp < now

----------------------------------------------------------------------------
(* C6 *)

\* An update records an error on the closed breaker of id and errors.length
\* reaches maxErrorCount
Saturates(id) ==
    /\ Known(id)
    /\ Before(id).status = "closed"
    /\ \E code \in Codes : UpdateOf(id, code)
    /\ Len(After(id).errors) > Len(Before(id).errors)
    /\ Len(After(id).errors) >= Before(id).params.maxErrorCount

\* A check finds the breaker open with errors.length >= maxErrorCount
ChecksSaturated(id) ==
    /\ ChecksOpen(id)
    /\ Len(Before(id).errors) >= Before(id).params.maxErrorCount

\* C6 as claimed: once updates have brought errors.length of a closed
\* breaker to maxErrorCount, the next check returns status open, at whatever
\* later time it is issued (read here on the breakers with
\* halfOpenSuccesses > 0, whose check never throws).
C6_AsClaimed ==
    [][\A id \in Ids :
        /\ Saturates(id) => After(id).status = "open"
        /\ (ChecksSaturated(id) /\ Before(id).params.halfOpenSuccesses > 0)
           => After(id).status = "open"]_vars

\* C6 amended: once an update has recorded the error that brings
\* errors.length of a closed breaker to maxErrorCount the breaker is open, and
\* the next check returns status open (route open) when it is issued no
\* later than recoverPeriod seconds after the breaker opened and no later
\* than timeRange seconds after the oldest recorded error.
C6_SaturatedStaysOpenInPeriods ==
    [][\A id \in Ids :
        /\ Saturates(id) => After(id).status = "open" /\ After(id).openedTimestamp = now
        /\ (/\ ChecksSaturated(id)
            /\ OpenSince(id) <= RecoverMillis(id)
            /\ now <= Before(id).errors[1].timestamp + WindowMillis(id))
           => /\ After(id).status = "open"
              /\ After(id).errors = Before(id).errors
              /\ last'.output = "open"]_vars

\* The check right after the update that opened the breaker left it open
C6_Witness ==
    \E id \in Ids :
        /\ Known(id)
        /\ LastCheckOf(id)
        /\ last.pre = "open"
        /\ last.output = "open"
        /\ Before(id).status = "open"
        /\ Before(id).params.maxErrorCount = 2
        /\ Len(Before(id).errors) = 2
        /\ now > Before(id).openedTimestamp
        /\ OpenSince(id) <= RecoverMillis(id)
        /\ now <= Before(id).errors[1].timestamp + WindowMillis(id)

----------------------------------------------------------------------------
(* C7 *)

\* C7: an update for an identifier without a stored breaker fails silently:
\* no error is raised, the call is a no-op and the store is unchanged.
C7_AsClaimed ==
    [][\A id \in Ids : \A code \in Codes :
        (~Known(id) /\ UpdateOf(id, code)) =>
            /\ last'.error = NoError
            /\ last'.output = "next"
            /\ circuitBreakerCache' = circuitBreakerCache]_vars

----------------------------------------------------------------------------
(* C8 *)

\* C8: a check without identifier, and an update without identifier or
\* without response code, ends with route error and the message that names
\* the missing parameter (the identifier when both are missing), and every
\* stored breaker is the same before and after.
C8_MissingParameter ==
    [][/\ (last'.op = "check" /\ LacksId(last'.params))
          => /\ last'.output = "error"
             /\ last'.error = "Missing required parameter: circuitBreakerId"
             /\ circuitBreakerCache' = circuitBreakerCache
       /\ (last'.op = "update" /\ LacksId(last'.params))
          => /\ last'.output = "error"
             /\ last'.error = "Missing required parameter: circuitBreakerId"
             /\ circuitBreakerCache' = circuitBreakerCache
       /\ (/\ last'.op = "update"
           /\ ~LacksId(last'.params)
           /\ "httpResponseCode" \notin DOMAIN last'.params)
          => /\ last'.output = "error"
             /\ last'.error = "Missing required parameter: httpResponseCode"
             /\ circuitBreakerCache' = circuitBreakerCache
       /\ \A id \in DOMAIN circuitBreakerCache' : id # ""]_vars

\* An update without identifier and code was refused while a breaker with
\* recorded errors was stored
C8_Witness ==
    /\ last.op = "update"
    /\ last.params = EmptyObject
    /\ last.output = "error"
    /\ last.error = "Missing required parameter: circuitBreakerId"
    /\ \E id \in Ids : Known(id) /\ Len(Before(id).errors) > 0

----------------------------------------------------------------------------
(* C9 *)

\* The parameters a new breaker must hold for the params of the check
ExpectedParams(params) ==
    [f \in DOMAIN params \cup {"maxErrorCount", "timeRange", "halfOpenSuccesses",
                               "recoverPeriod", "returnCodes", "maxResponseTime",
                               "communicationError"} |->
        IF f \in DOMAIN params THEN params[f]
        ELSE CASE f = "maxErrorCount" -> 10
               [] f = "timeRange" -> 300
               [] f = "halfOpenSuccesses" -> 5
               [] f = "recoverPeriod" -> 30
               [] f = "returnCodes" -> <<"[", "3", "0", "0", "-", "9", "9", "9", "]">>
               [] f = "maxResponseTime" -> 100
               [] f = "communicationError" -> TRUE]

\* C9: the first check for an unseen identifier creates a breaker with status
\* closed, no errors, successCount 0, an empty classification cache and the
\* supplied params completed with the defaults, and returns route next.
C9_FirstCheckCreates ==
    [][\A id \in Ids :
        (~Known(id) /\ CheckOf(id)) =>
            /\ After(id) = [status |-> "closed", output |-> "next", errors |-> <<>>,
                            successCount |-> 0, errorCodeMap |-> EmptyObject,
                            params |-> ExpectedParams(last'.params)]
            /\ DOMAIN circuitBreakerCache' = DOMAIN circuitBreakerCache \cup {id}
            /\ last'.output = "next"
            /\ last'.error = NoError]_vars

\* A breaker was just created from params that set some parameters and
\* leave others to the defaults
C9_Witness ==
    \E id \in Ids :
        /\ Known(id)
        /\ LastCheckOf(id)
        /\ last.pre = "absent"
        /\ last.output = "next"
        /\ "maxErrorCount" \in DOMAIN last.params
        /\ "recoverPeriod" \notin DOMAIN last.params
        /\ Before(id).params.maxErrorCount = 1
        /\ Before(id).params.recoverPeriod = 30
        /\ Before(id).status = "closed"

----------------------------------------------------------------------------
(* C10 *)

\* C10: the params of an existing breaker never change, whatever checks
\* (with any params) and updates follow.
C10_ParamsFixed ==
    [][\A id \in DOMAIN circuitBreakerCache :
        /\ id \in DOMAIN circuitBreakerCache'
        /\ After(id).params = Before(id).params]_vars

\* A check with other params than those of the creation has just run
C10_Witness ==
    \E id \in Ids :
        /\ Known(id)
        /\ LastCheckOf(id)
        /\ last.pre # "absent"
        /\ "maxErrorCount" \in DOMAIN last.params
        /\ last.params.maxErrorCount # Before(id).params.maxErrorCount
        /\ "timeRange" \notin DOMAIN last.params
        /\ Before(id).params.timeRange # 300

----------------------------------------------------------------------------
(* C11 *)

ChecksClosed(id) ==
    /\ Known(id)
    /\ Before(id).status = "closed"
    /\ CheckOf(id)

\* C11: a check of an existing closed breaker returns route next and leaves
\* status, errors, successCount, the classification cache, openedAt and
\* params as they were, at any time and whatever errors holds.
C11_ClosedCheckChangesNothing ==
    [][\A id \in Ids :
        ChecksClosed(id) =>
            /\ last'.output = "next"
            /\ last'.error = NoError
            /\ After(id).status = "closed"
            /\ After(id).errors = Before(id).errors
            /\ After(id).successCount = Before(id).successCount
            /\ After(id).errorCodeMap = Before(id).errorCodeMap
            /\ After(id).params = Before(id).params
            /\ SameOpenedTimestamp(id)]_vars

\* A closed breaker that holds an error, a counted success and a remembered
\* code has just been checked, a second after the error
C11_Witness ==
    \E id \in Ids :
        /\ Known(id)
        /\ LastCheckOf(id)
        /\ last.pre = "closed"
        /\ last.output = "next"
        /\ Before(id).status = "closed"
        /\ Len(Before(id).errors) = 1
        /\ Before(id).errors[1].timestamp < now
        /\ Before(id).successCount >= 1
        /\ DOMAIN Before(id).errorCodeMap = {200, 500}

----------------------------------------------------------------------------
(* C12 *)

\* C12: a halfopen breaker becomes closed only through a check made with
\* successCount >= halfOpenSuccesses; after every such step errors is empty
\* and the route is next.
C12_HalfopenExit ==
    [][\A id \in Ids :
        (/\ Known(id)
         /\ Before(id).status = "halfopen"
         /\ After(id).status = "closed")
        => /\ CheckOf(id)
           /\ Before(id).successCount >= Before(id).params.halfOpenSuccesses
           /\ After(id).errors = <<>>
           /\ last'.output = "next"
           /\ last'.error = NoError]_vars

\* A check has closed a halfopen breaker of halfOpenSuccesses 2 at an even
\* successCount
C12_Witness ==
    \E id \in Ids :
        /\ Known(id)
        /\ LastCheckOf(id)
        /\ last.pre = "halfopen"
        /\ Before(id).status = "closed"
        /\ Before(id).params.halfOpenSuccesses = 2
        /\ Before(id).successCount = 2
        /\ Before(id).errors = <<>>
        /\ last.output = "next"

----------------------------------------------------------------------------
(* The classifier on the returnCodes grammar: the breaker "A" is created   *)
(* with a returnCodes written from a list of tokens, and updates report    *)
(* codes to it.                                                            *)

\* The decimal digits of a natural number
RECURSIVE FormatNumber(_)
FormatNumber(n) ==
    IF n < 10 THEN <<Digits[n + 1]>>
    ELSE FormatNumber(n \div 10) \o <<Digits[(n % 10) + 1]>>

\* A token is an exact code or a range lo-hi, written in one of the styles
\* of the grammar: plain, in brackets, or with blanks around it and around
\* the hyphen
Exact(n, style) == [kind |-> "exact", lo |-> n, hi |-> n, style |-> style]
Range(lo, hi, style) == [kind |-> "range", lo |-> lo, hi |-> hi, style |-> style]

RenderToken(token) ==
    IF token.kind = "exact"
    THEN IF token.style = "plain" THEN FormatNumber(token.lo)
         ELSE <<" ">> \o FormatNumber(token.lo)
    ELSE CASE token.style = "plain" ->
                FormatNumber(token.lo) \o <<"-">> \o FormatNumber(token.hi)
           [] token.style = "brackets" ->
                <<"[">> \o FormatNumber(token.lo) \o <<"-">> \o FormatNumber(token.hi)
                    \o <<"]">>
           [] token.style = "blanks" ->
                <<" ", "[">> \o FormatNumber(token.lo) \o <<" ", "-", " ">>
                    \o FormatNumber(token.hi) \o <<"]", " ">>

\* The tokens joined by commas
RECURSIVE RenderTokens(_)
RenderTokens(tokens) ==
    IF Len(tokens) = 1 THEN RenderToken(tokens[1])
    ELSE RenderToken(tokens[1]) \o <<",">> \o RenderTokens(Tail(tokens))

\* The ranges written in the specs: proper, of one code, and empty
RangeEnds == {<<300, 500>>, <<40, 300>>, <<500, 500>>, <<999, 300>>}

FirstTokens ==
    {Exact(n, style) : n \in {40, 500, 999}, style \in {"plain", "blanks"}}
        \cup {Range(r[1], r[2], style) :
                 r \in RangeEnds, style \in {"plain", "brackets", "blanks"}}

\* A second token, as 999 is in "[300-500], 999"
SecondTokens ==
    {Exact(999, "blanks"), Exact(40, "plain"), Range(300, 500, "brackets")}

TokenLists ==
    {<<t>> : t \in FirstTokens} \cup {<<t, u>> : t \in FirstTokens, u \in SecondTokens}

\* Every list of tokens with the returnCodes it is written as
RenderedSpecs == {[tokens |-> tokens, text |-> RenderTokens(tokens)] : tokens \in TokenLists}

\* The codes reported to the breaker
ClassifyCodes == {40, 300, 307, 500, 600, 999}

\* The state after the check that creates "A" with a returnCodes
InitClassify ==
    \E spec \in RenderedSpecs :
        LET params == WithId("A", [returnCodes |-> spec.text])
        IN  /\ circuitBreakerCache = [i \in {"A"} |-> NewCircuitBreaker(params)]
            /\ now = 0
            /\ last = Call("check", params, "absent", "next", NoError)

Classify ==
    \E code \in ClassifyCodes :
        UpdateCircuitBreaker([circuitBreakerId |-> "A", httpResponseCode |-> code])

NextClassify == Classify

SpecClassify == InitClassify /\ [][NextClassify]_vars

----------------------------------------------------------------------------
(* C13 *)

\* The code equals an exact token or lies within a range token, ends included
Denotes(tokens, code) ==
    \E i \in 1..Len(tokens) : tokens[i].lo <= code /\ code <= tokens[i].hi

\* The token lists the returnCodes of "A" is written from
TokensOfA ==
    {spec.tokens : spec \in {s \in RenderedSpecs :
                                s.text = circuitBreakerCache["A"].params.returnCodes}}

\* C13: for every code and every returnCodes made of comma-separated exact
\* integers and lo-hi ranges (brackets optional), the code is classified as
\* an error exactly when it equals an exact token or lies within a range
\* token, ends included, compared as numbers: an update with the code
\* records an error in that case and counts a success otherwise. Under
\* "[300-500], 999" code 600 is no error, 307 and 999 are.
C13_ClassifiesByTokens ==
    [][\A code \in ClassifyCodes : \A tokens \in TokensOfA :
        UpdateOf("A", code) =>
            /\ After("A").errorCodeMap[code] = Denotes(tokens, code)
            /\ Denotes(tokens, code) =>
                   /\ Len(After("A").errors) = Len(Before("A").errors) + 1
                   /\ After("A").successCount = Before("A").successCount
            /\ ~Denotes(tokens, code) =>
                   /\ After("A").errors = Before("A").errors
                   /\ After("A").successCount = Before("A").successCount + 1]_vars

\* The three codes of scenario C were reported under "[300-500], 999"
C13_Witness ==
    /\ Known("A")
    /\ Before("A").params.returnCodes =
           <<"[", "3", "0", "0", "-", "5", "0", "0", "]", ",", " ", "9", "9", "9">>
    /\ DOMAIN Before("A").errorCodeMap = {307, 600, 999}
    /\ Before("A").errorCodeMap[307]
    /\ Before("A").errorCodeMap[999]
    /\ ~Before("A").errorCodeMap[600]
    /\ Len(Before("A").errors) = 2
    /\ Before("A").successCount = 1

----------------------------------------------------------------------------
(* C14 *)

\* The update has recorded an error
RecordsError(id) == Len(After(id).errors) = Len(Before(id).errors) + 1

\* C14: the first update with a code writes its classification, true or
\* false, into the classification cache of the breaker; a later update with
\* the same code acts on the cached boolean and leaves the cache as it is;
\* and every cache entry is the classification that returnCodes gives its
\* code.
C14_ClassificationMemoised ==
    [][\A code \in ClassifyCodes :
        UpdateOf("A", code) =>
            /\ IF code \in DOMAIN Before("A").errorCodeMap
               THEN /\ After("A").errorCodeMap = Before("A").errorCodeMap
                    /\ RecordsError("A") = Before("A").errorCodeMap[code]
               ELSE /\ DOMAIN After("A").errorCodeMap =
                           DOMAIN Before("A").errorCodeMap \cup {code}
                    /\ \A c \in DOMAIN Before("A").errorCodeMap :
                           After("A").errorCodeMap[c] = Before("A").errorCodeMap[c]
                    /\ RecordsError("A") = After("A").errorCodeMap[code]
            /\ \A tokens \in TokensOfA : \A c \in DOMAIN After("A").errorCodeMap :
                   After("A").errorCodeMap[c] = Denotes(tokens, c)]_vars

\* Code 307 was reported twice under "[300-500], 999": both updates recorded
\* an error and the cache holds the one entry
C14_Witness ==
    /\ Known("A")
    /\ LastUpdateOf("A")
    /\ last.params.httpResponseCode = 307
    /\ Before("A").params.returnCodes = CombinedReturnCodes
    /\ DOMAIN Before("A").errorCodeMap = {307}
    /\ Before("A").errorCodeMap[307]
    /\ Len(Before("A").errors) = 2
    /\ Before("A").errors[1].cause = <<"responseCode", 307>>
    /\ Before("A").errors[2].cause = <<"responseCode", 307>>

----------------------------------------------------------------------------
(* Two flows, each with a breaker of its own, call in any order *)

TwoIds == {"A", "B"}

\* The parameter set of the two flows: one error opens the breaker, which
\* turns halfopen after more than a second and closes after one success
TwoConfigs == {[maxErrorCount |-> 1, recoverPeriod |-> 1, halfOpenSuccesses |-> 1]}

\* The two flows are followed for a shorter time than the single one
TickTwo == now + 2000 < MaxTicks * 1000 /\ Tick

CheckTwo ==
    \E id \in TwoIds : \E config \in TwoConfigs :
        ConfigCheckCircuitBreaker(WithId(id, config))

\* Each of the two flows reports MaxErrors outcomes at most
ReportsLeft(id) ==
    IF Unknown(id) THEN TRUE
    ELSE Len(circuitBreakerCache[id].errors) + circuitBreakerCache[id].successCount
             < MaxErrors

UpdateTwo ==
    \E id \in TwoIds : \E code \in Codes :
        /\ ReportsLeft(id)
        /\ UpdateCircuitBreaker([circuitBreakerId |-> id, httpResponseCode |-> code])

NextTwo == CheckTwo \/ UpdateTwo \/ TickTwo

SpecTwo == Init /\ [][NextTwo]_vars

----------------------------------------------------------------------------
(* C15 *)

\* The step is a call that passed the validation of the identifier id
CallOf(id) ==
    /\ last'.op \in {"check", "update"}
    /\ ~LacksId(last'.params)
    /\ last'.params.circuitBreakerId = id

\* C15: a check or an update for one identifier never alters the stored
\* breaker of another identifier: in every interleaving of calls on "A" and
\* "B", a call on one of them leaves the other as it was, stored or not.
C15_OtherIdentifierUntouched ==
    [][\A id \in TwoIds : \A other \in TwoIds \ {id} :
        CallOf(id) =>
            /\ (other \in DOMAIN circuitBreakerCache') = Known(other)
            /\ Known(other) => After(other) = Before(other)]_vars

\* An error has just opened "A" while "B", halfopen with one success on
\* record, is as it was
C15_Witness ==
    /\ Known("A") /\ Known("B")
    /\ LastUpdateOf("A")
    /\ last.pre = "closed"
    /\ Before("A").status = "open"
    /\ Before("A").openedTimestamp = now
    /\ Before("B").status = "halfopen"
    /\ Before("B").successCount = 1
    /\ Before("B").openedTimestamp < now
    /\ Len(Before("B").errors) = 1

----------------------------------------------------------------------------
(* C16 *)

\* C16: apart from the validation of the identifier, check is total: for
\* every stored breaker and every parameter set, halfOpenSuccesses = 0
\* included, it returns a route among next and open and raises no error.
C16_AsClaimed ==
    [][\A id \in Ids :
        (Known(id) /\ CheckOf(id)) =>
            /\ last'.output \in {"next", "open"}
            /\ last'.error = NoError]_vars

----------------------------------------------------------------------------
(* C17 *)

\* The events of errors with a timestamp of cutoff or later, in their order
InWindow(errors, cutoff) ==
    LET Recent(error) == error.timestamp >= cutoff
    IN  SelectSeq(errors, Recent)

\* C17: the prune of a check on an open breaker removes exactly the error
\* events with timestamp < now - timeRange*1000 and keeps every later one in
\* its order; a stale event followed by events inside the window leaves
\* those events in errors, and they count against maxErrorCount.
C17_AsClaimed ==
    [][\A id \in Ids :
        ChecksOpenInRecoverPeriod(id) =>
            LET kept == InWindow(Before(id).errors, now - WindowMillis(id))
            IN  /\ After(id).errors = kept
                /\ (After(id).status = "open")
                       = (Len(kept) >= Before(id).params.maxErrorCount)]_vars

----------------------------------------------------------------------------
(* C18 *)

\* The step is an update for id that recorded an error
ErrorUpdateOf(id) ==
    /\ \E code \in Codes : UpdateOf(id, code)
    /\ RecordsError(id)

\* The step takes the status of id from one value to another
Edge(id, from, to) == Before(id).status = from /\ After(id).status = to

\* C18: over any sequence of checks and updates the status changes only
\* from closed to open by an error update, from open to halfopen by a check
\* after the recover period, from open to closed by a check that leaves
\* fewer errors than maxErrorCount after the prune, from halfopen to closed
\* by a check with successCount >= halfOpenSuccesses, and from halfopen to
\* open by an error update; an update never sets the status to closed or
\* halfopen, and a check never opens a closed or halfopen breaker.
C18_StatusEdges ==
    [][\A id \in Ids :
        Known(id) =>
            /\ After(id).status \in {"closed", "open", "halfopen"}
            /\ After(id).status # Before(id).status =>
                   \/ Edge(id, "closed", "open") /\ ErrorUpdateOf(id)
                   \/ /\ Edge(id, "open", "halfopen")
                      /\ ChecksOpen(id)
                      /\ OpenSince(id) > RecoverMillis(id)
                   \/ /\ Edge(id, "open", "closed")
                      /\ ChecksOpen(id)
                      /\ Len(After(id).errors) < Before(id).params.maxErrorCount
                   \/ /\ Edge(id, "halfopen", "closed")
                      /\ CheckOf(id)
                      /\ Before(id).successCount >= Before(id).params.halfOpenSuccesses
                   \/ Edge(id, "halfopen", "open") /\ ErrorUpdateOf(id)
            /\ last'.op = "update" /\ After(id).status # Before(id).status
                   => After(id).status = "open"
            /\ CheckOf(id) /\ Before(id).status \in {"closed", "halfopen"}
                   => After(id).status # "open"]_vars

\* The breaker was opened, became halfopen and counted a success, and an
\* error update has just opened it again
C18_Witness ==
    \E id \in Ids :
        /\ Known(id)
        /\ LastUpdateOf(id)
        /\ last.pre = "halfopen"
        /\ Before(id).status = "open"
        /\ Before(id).openedTimestamp = now
        /\ Before(id).successCount = 1
        /\ Len(Before(id).errors) = 2
        /\ Before(id).errors[1].timestamp < now

----------------------------------------------------------------------------
(* C19 *)

\* No event of errors was removed: the old list starts the new one
KeepsErrors(id) ==
    /\ Len(Before(id).errors) <= Len(After(id).errors)
    /\ SubSeq(After(id).errors, 1, Len(Before(id).errors)) = Before(id).errors

\* A non-empty errors has become empty
EmptiesErrors(id) == Before(id).errors # <<>> /\ After(id).errors = <<>>

\* The check that takes the breaker from halfopen to closed
ClosesHalfopen(id) == CheckOf(id) /\ Edge(id, "halfopen", "closed")

\* C19 as claimed: error events are removed only by the prune of a check
\* that finds the breaker open in its recover period or by the clear of the
\* check that closes a halfopen breaker, and a non-empty errors is emptied
\* only by the latter.
C19_AsClaimed ==
    [][\A id \in Ids :
        Known(id) =>
            /\ ~KeepsErrors(id) => ChecksOpenInRecoverPeriod(id) \/ ClosesHalfopen(id)
            /\ EmptiesErrors(id) => ClosesHalfopen(id)]_vars

\* C19: error events are removed only by the prune of a check that finds
\* the breaker open in its recover period or by the clear of the check that
\* closes a halfopen breaker: an update, a check of a closed breaker, a check
\* of a halfopen breaker that stays halfopen and the check that turns an open
\* breaker halfopen remove none; a non-empty errors is emptied only by one
\* of those two steps.
C19_ErrorsRemovedOnlyByPruneOrClear ==
    [][\A id \in Ids :
        Known(id) =>
            /\ ~KeepsErrors(id) => ChecksOpenInRecoverPeriod(id) \/ ClosesHalfopen(id)
            /\ EmptiesErrors(id) => ChecksOpenInRecoverPeriod(id) \/ ClosesHalfopen(id)
            /\ last'.op = "update" => KeepsErrors(id)
            /\ ChecksClosed(id) => KeepsErrors(id)
            /\ CheckOf(id) /\ Edge(id, "halfopen", "halfopen") => KeepsErrors(id)
            /\ CheckOf(id) /\ Edge(id, "open", "halfopen") => KeepsErrors(id)]_vars

\* The prune of a check has emptied the errors of an open breaker whose one
\* error was two seconds old, the window being one second and the recover
\* period two
C19_Witness ==
    \E id \in Ids :
        /\ Known(id)
        /\ LastCheckOf(id)
        /\ last.pre = "open"
        /\ Before(id).status = "closed"
        /\ Before(id).errors = <<>>
        /\ Before(id).params.timeRange = 1
        /\ Before(id).params.recoverPeriod = 2
        /\ OpenSince(id) = RecoverMillis(id)
        /\ 500 \in DOMAIN Before(id).errorCodeMap

----------------------------------------------------------------------------
(* C20 *)

\* The step is an update for id that recorded no error
SuccessUpdateOf(id) ==
    /\ \E code \in Codes : UpdateOf(id, code)
    /\ ~RecordsError(id)

\* C20: successCount starts at 0, is set to 0 by every check that turns an
\* open breaker halfopen, grows by one with every update that is no error,
\* whatever the status, and is changed by no other step: no check of a
\* closed or halfopen breaker, no error update, no step from halfopen to
\* closed or to open.
C20_SuccessCountSteps ==
    [][\A id \in Ids :
        /\ ~Known(id) /\ id \in DOMAIN circuitBreakerCache' => After(id).successCount = 0
        /\ Known(id) =>
               After(id).successCount =
                   IF ChecksOpen(id) /\ OpenSince(id) > RecoverMillis(id) THEN 0
                   ELSE IF SuccessUpdateOf(id) THEN Before(id).successCount + 1
                   ELSE Before(id).successCount]_vars

\* An open breaker that had counted successes was turned halfopen by a
\* check, which set successCount to 0
C20_Witness ==
    \E id \in Ids :
        /\ Known(id)
        /\ LastCheckOf(id)
        /\ last.pre = "open"
        /\ Before(id).status = "halfopen"
        /\ Before(id).successCount = 0
        /\ 200 \in DOMAIN Before(id).errorCodeMap
        /\ Before(id).params.halfOpenSuccesses = 3

----------------------------------------------------------------------------
(* C21 *)

\* C21: openedAt is undefined until the breaker first opens and is then the
\* time of the latest step from closed or halfopen to open: no other step
\* changes it, so an error update of a breaker that is already open leaves
\* openedAt, and with it the start of the recover period, where it was.
C21_AsClaimed ==
    [][\A id \in Ids :
        /\ ~Known(id) /\ id \in DOMAIN circuitBreakerCache'
               => "openedTimestamp" \notin DOMAIN After(id)
        /\ Known(id) =>
               IF Before(id).status \in {"closed", "halfopen"}
                      /\ After(id).status = "open"
               THEN After(id).openedTimestamp = now
               ELSE SameOpenedTimestamp(id)]_vars

----------------------------------------------------------------------------
(* A flow whose breaker opens at the second error and counts errors over   *)
(* a window of one second                                                  *)

WindowConfigs == {[maxErrorCount |-> 2, timeRange |-> 1]}

CheckWindow ==
    \E config \in WindowConfigs : ConfigCheckCircuitBreaker(WithId("A", config))

UpdateWindow ==
    \E code \in Codes :
        UpdateCircuitBreaker([circuitBreakerId |-> "A", httpResponseCode |-> code])

NextWindow == CheckWindow \/ UpdateWindow \/ Tick

SpecWindow == Init /\ [][NextWindow]_vars

----------------------------------------------------------------------------
(* C22 *)

\* C22: an update opens a closed breaker only when at least maxErrorCount of
\* the recorded errors, the new one included, have a timestamp within the
\* last timeRange seconds; older errors do not count towards opening.
C22_AsClaimed ==
    [][\A id \in Ids :
        (Known(id) /\ last'.op = "update" /\ Edge(id, "closed", "open")) =>
            Len(InWindow(After(id).errors, now - WindowMillis(id)))
                >= Before(id).params.maxErrorCount]_vars

----------------------------------------------------------------------------
(* C23 *)

\* The value a check, an update, returns: the object the handler worked on
ReturnedByCheck == HandleStatus(CheckedBreaker(last'.params), now).cb
ReturnedByUpdate(id) == Updated(Before(id), last'.params.httpResponseCode, now)

\* C23: after every check and every update that succeeds, the cache holds
\* for the identifier the very state the call returned, so the next get sees
\* every change the call made, although set is called for a new breaker
\* only.
C23_CacheHoldsReturnedState ==
    [][\A id \in Ids :
        /\ CheckOf(id) /\ last'.error = NoError
               => /\ id \in DOMAIN circuitBreakerCache'
                  /\ After(id) = ReturnedByCheck
                  /\ After(id).output = last'.output
        /\ (\E code \in Codes : UpdateOf(id, code)) /\ last'.error = NoError
               => /\ id \in DOMAIN circuitBreakerCache'
                  /\ After(id) = ReturnedByUpdate(id)]_vars

\* The cache shows what the calls did to a breaker set once: two successes
\* counted by updates after the check that turned it halfopen
C23_Witness ==
    \E id \in Ids :
        /\ Known(id)
        /\ LastUpdateOf(id)
        /\ last.error = NoError
        /\ last.pre = "halfopen"
        /\ Before(id).status = "halfopen"
        /\ Before(id).successCount = 2
        /\ Before(id).params.halfOpenSuccesses = 3
        /\ Len(Before(id).errors) = 2

----------------------------------------------------------------------------
(* C24 *)

\* C24: in every state that checks and updates can reach, a closed breaker
\* created with maxErrorCount >= 1 holds fewer errors than maxErrorCount.
C24_ClosedBelowMaxErrorCount ==
    \A id \in DOMAIN circuitBreakerCache :
        (circuitBreakerCache[id].params.maxErrorCount >= 1
             /\ circuitBreakerCache[id].status = "closed")
            => Len(circuitBreakerCache[id].errors)
                   < circuitBreakerCache[id].params.maxErrorCount

\* A closed breaker that opens at the second error holds one error, left by
\* the update just made
C24_Witness ==
    \E id \in Ids :
        /\ Known(id)
        /\ LastUpdateOf(id)
        /\ last.params.httpResponseCode = 500
        /\ last.pre = "closed"
        /\ Before(id).status = "closed"
        /\ Before(id).params.maxErrorCount = 2
        /\ Len(Before(id).errors) = 1
        /\ Before(id).errors[1].timestamp = now

----------------------------------------------------------------------------
(* A flow that respects the route: it calls the resource and reports the   *)
(* outcome only right after a check that returned next. The resource fails *)
(* only while the breaker is closed; once the breaker has opened, every    *)
(* call that is let through succeeds.                                      *)

\* Parameter sets with halfOpenSuccesses 3 and 2
ProbeConfigs == {Configs[3], Configs[4]}

\* The last call was a check that returned next
RoutedNext ==
    /\ last.op = "check"
    /\ last.output = "next"
    /\ last.error = NoError

CheckProbe ==
    \E config \in ProbeConfigs : ConfigCheckCircuitBreaker(WithId("A", config))

\* The resource answers with code when the flow calls it
Answers(code) ==
    IF Unknown("A") THEN FALSE
    ELSE IF IsReturnCodeAnError(circuitBreakerCache["A"], code)
    THEN circuitBreakerCache["A"].status = "closed"
    ELSE TRUE

UpdateProbe ==
    /\ RoutedNext
    /\ \E code \in {c \in Codes : Answers(c)} :
           UpdateCircuitBreaker([circuitBreakerId |-> "A", httpResponseCode |-> code])

NextProbe == CheckProbe \/ UpdateProbe \/ Tick

\* ENABLED <<UpdateProbe>>_vars, written out: the flow was routed next and
\* the resource has an answer the exploration still follows
ReportPossible ==
    /\ RoutedNext
    /\ \E code \in {c \in Codes : Answers(c)} :
           WithinBounds(circuitBreakerCache["A"], code)

\* Checks keep being issued, and a check that returned next is followed by
\* the report of the outcome: weak fairness of CheckProbe and of UpdateProbe,
\* the latter with its enabling condition written out
SpecProbe ==
    /\ Init /\ [][NextProbe]_vars
    /\ WF_vars(CheckProbe)
    /\ ([]<>(~ReportPossible) \/ []<><<UpdateProbe>>_vars)

----------------------------------------------------------------------------
(* C25 *)

\* C25: with a flow that respects the route and a resource that now always
\* succeeds, a halfopen breaker with halfOpenSuccesses >= 2 is eventually
\* closed when checks keep being issued.
C25_AsClaimed ==
    (StatusOf("A") = "halfopen") ~> (StatusOf("A") = "closed")

====
